---- MODULE Spec2Model ----
(***************************************************************************)
(* Model of app.py: the Streamlit executive dashboard.                     *)
(*                                                                         *)
(* One render is one top-to-bottom run of the script: load_and_prepare     *)
(* (behind st.cache_data), the sidebar widgets, apply_filters,             *)
(* calculate_kpis, the selected page.  A user interaction re-runs it.      *)
(*                                                                         *)
(* Encodings                                                               *)
(*   nullable value : <<>> is null (NaN / None / NaT), <<v>> is v          *)
(*   spreadsheet cell of a parsed column : [k, v], k in "num"/"ts" (a      *)
(*       value of the column's type), "text" (unparseable), "empty"        *)
(*   timestamp : [y, d, t] year, day of the year, time of day; t = 0 is    *)
(*       midnight; ordered lexicographically                               *)
(*   calendar date : [y, d]                                                *)
(*   float quotient : [k, n, d], k in "finite" (n/d), "nan", "inf", "-inf" *)
(*   Profit is kept in hundredths (margin rates are whole percents)        *)
(***************************************************************************)
EXTENDS Integers, Sequences, FiniteSets, TLC

VARIABLES file, cache, reads, pc, df, filters, filtered_df, kpis, page,
          groupby, grouped, error

vars == <<file, cache, reads, pc, df, filters, filtered_df, kpis, page,
          groupby, grouped, error>>

\* ------------------------------------------------------------------ bounds
MaxRows == 2
MaxReads == 3

\* --------------------------------------------------------------- constants
DATA_FILE == "Data Set_11.xlsx"
RetailRate == 22
B2BRate == 14
DefaultRate == 18
MissingCustomer == 0 - 1

SourceCols == {"InvoiceNo", "Description", "CustomerID", "Country", "Type",
               "StockCode", "InvoiceDate", "Quantity", "UnitPrice"}

\* ------------------------------------------------------- nullable values
Null == <<>>
Some(v) == <<v>>
IsNull(x) == x = <<>>
fillna(x, v) == IF x = <<>> THEN <<v>> ELSE x

\* --------------------------------------------------------------- sequences
RECURSIVE SeqSum(_)
SeqSum(s) == IF s = <<>> THEN 0 ELSE Head(s) + SeqSum(Tail(s))

RECURSIVE Filter(_, _)
\* boolean-mask indexing df[mask]: keeps the rows whose mask entry is TRUE
Filter(rows, mask) ==
  IF rows = <<>> THEN <<>>
  ELSE IF Head(mask) THEN <<Head(rows)>> \o Filter(Tail(rows), Tail(mask))
       ELSE Filter(Tail(rows), Tail(mask))

Column(rows, c) == [i \in 1..Len(rows) |-> rows[i][c]]
Range(s) == {s[i] : i \in 1..Len(s)}

\* ------------------------------------------------------------- timestamps
LeqTs(a, b) ==
  \/ a.y < b.y
  \/ a.y = b.y /\ a.d < b.d
  \/ a.y = b.y /\ a.d = b.d /\ a.t <= b.t

\* Timestamp.date(): the calendar date, the time of day dropped
DateOf(ts) == [y |-> ts.y, d |-> ts.d]
\* pd.to_datetime(date): midnight of that date
to_datetime(date) == [y |-> date.y, d |-> date.d, t |-> 0]

MinTs(S) == CHOOSE a \in S : \A b \in S : LeqTs(a, b)
MaxTs(S) == CHOOSE a \in S : \A b \in S : LeqTs(b, a)

\* --------------------------------------------------------- load_and_prepare
\* pd.to_numeric(errors="coerce") / pd.to_datetime(errors="coerce")
coerce(cell, kind) == IF cell.k = kind THEN Some(cell.v) ELSE Null

\* df.get(col): the column, or None when the spreadsheet has no such column
Get(f, raw, col) == IF col \in f.cols THEN raw[col] ELSE Null

\* margin_map lookup; a key that is absent (or null) maps to null
margin_map(seg) ==
  IF seg = Some("Retail") THEN Some(RetailRate)
  ELSE IF seg = Some("B2B") THEN Some(B2BRate)
  ELSE Null

\* variant: the fallback of the lookup is 0 instead of the default rate
SegmentRateNoDefault(seg) == fillna(margin_map(seg), 0)[1]

SegmentRate(seg) == fillna(margin_map(seg), DefaultRate)[1]

Quotient(n, d) ==
  IF d # 0 THEN [k |-> "finite", n |-> n, d |-> d]
  ELSE IF n = 0 THEN [k |-> "nan", n |-> 0, d |-> 0]
  ELSE IF n > 0 THEN [k |-> "inf", n |-> 0, d |-> 0]
  ELSE [k |-> "-inf", n |-> 0, d |-> 0]

Zero == [k |-> "finite", n |-> 0, d |-> 1]

\* lines 26-56 for one spreadsheet row (the columns the later code reads)
Prepare(f, raw) ==
  LET date == coerce(raw["InvoiceDate"], "ts")
      qty == coerce(raw["Quantity"], "num")
      price == coerce(raw["UnitPrice"], "num")
      cust == IF "CustomerID" \in f.cols
              THEN coerce(raw["CustomerID"], "num") ELSE Null
      seg == Get(f, raw, "Type")
      sales == fillna(qty, 0)[1] * fillna(price, 0)[1]
      profit == sales * SegmentRate(seg)
  IN [OrderID |-> Get(f, raw, "InvoiceNo"),
      ProductName |-> Get(f, raw, "Description"),
      CustomerID |-> cust,
      Region |-> Get(f, raw, "Country"),
      Segment |-> seg,
      Category |-> Get(f, raw, "Type"),
      SubCategory |-> Get(f, raw, "StockCode"),
      OrderDate |-> date,
      Quantity |-> qty,
      UnitPrice |-> price,
      Sales |-> sales,
      Profit |-> profit,
      Year |-> IF IsNull(date) THEN Null ELSE Some(date[1].y),
      ProfitMargin |-> IF sales # 0 THEN Quotient(profit, sales) ELSE Zero]

\* line 58 (dropna on Order Date) and line 59 (Customer ID as int, -1)
Finalize(rows) ==
  LET kept == Filter(rows, [i \in 1..Len(rows) |-> ~IsNull(rows[i].OrderDate)])
  IN [i \in 1..Len(kept) |->
        [kept[i] EXCEPT !.CustomerID = fillna(@, MissingCustomer)]]

\* the body of load_and_prepare: a table, or the exception it raises
load_and_prepare(f) ==
  IF ~f.readable THEN [status |-> "raised", exc |-> "read_excel", table |-> <<>>]
  ELSE IF ~({"Quantity", "UnitPrice"} \subseteq f.cols)
    THEN [status |-> "raised", exc |-> "KeyError", table |-> <<>>]
  ELSE IF "InvoiceDate" \notin f.cols
    THEN [status |-> "raised", exc |-> "AttributeError", table |-> <<>>]
  ELSE [status |-> "ok", exc |-> "",
        table |-> Finalize([i \in 1..Len(f.rows) |-> Prepare(f, f.rows[i])])]

\* ------------------------------------------------------------ apply_filters
\* line 67-68: the year filter, skipped for "All"
YearStep(rows, f) ==
  IF ~f.year.all
  THEN Filter(rows, [i \in 1..Len(rows) |-> rows[i].Year = Some(f.year.y)])
  ELSE rows

\* line 70-74: the three isin masks, and-ed
MemberStep(rows, f) ==
  Filter(rows, [i \in 1..Len(rows) |->
                  /\ rows[i].Category \in f.category
                  /\ rows[i].Region \in f.region
                  /\ rows[i].Segment \in f.segment])

\* variant: the end of the range is excluded
DateStepOpenEnd(rows, f) ==
  LET start == f.date_range[1]
      end == f.date_range[2]
  IN Filter(rows, [i \in 1..Len(rows) |->
                     /\ LeqTs(to_datetime(start), rows[i].OrderDate[1])
                     /\ LeqTs(rows[i].OrderDate[1], to_datetime(end))
                     /\ rows[i].OrderDate[1] # to_datetime(end)])

\* line 76-80: start, end = date_range; both compared as pd.to_datetime
DateStep(rows, f) ==
  LET start == f.date_range[1]
      end == f.date_range[2]
  IN Filter(rows, [i \in 1..Len(rows) |->
                     /\ LeqTs(to_datetime(start), rows[i].OrderDate[1])
                     /\ LeqTs(rows[i].OrderDate[1], to_datetime(end))])

apply_filters(table, f) == DateStep(MemberStep(YearStep(table, f), f), f)

\* variant: the filter is applied to the caller's table itself
ApplyEffectInPlace(table, f) ==
  [df |-> apply_filters(table, f), out |-> apply_filters(table, f)]

\* what a call leaves behind: the caller's table (out = df.copy() at line 65
\* works on a copy) and the returned table
ApplyEffect(table, f) == [df |-> table, out |-> apply_filters(table, f)]

\* ----------------------------------------------------------- calculate_kpis
\* Series.nunique(): distinct non-null values
nunique(col) == Cardinality(Range(col) \ {Null})
\* Series.count(): non-null entries
count(col) == Cardinality({i \in 1..Len(col) : ~IsNull(col[i])})
\* Series.mean(): NaN for an empty series
mean(col) == Quotient(SeqSum(col), Len(col))

calculate_kpis(table) ==
  LET sales == SeqSum(Column(table, "Sales"))
      profit == SeqSum(Column(table, "Profit"))
  IN [total_sales |-> sales,
      total_profit |-> profit,
      total_orders |-> nunique(Column(table, "OrderID")),
      total_customers |-> nunique(Column(table, "CustomerID")),
      avg_order_value |-> mean(Column(table, "Sales")),
      profit_margin |-> IF sales # 0 THEN Quotient(profit, sales) ELSE Zero]

\* ------------------------------------------------------- grouped breakdown
GroupDims == {"ProductName", "SubCategory", "Region", "Segment", "CustomerID"}

\* groupby(key): one group per non-null key value
GroupKeys(table, key) == Range(Column(table, key)) \ {Null}
GroupRows(table, key, g) ==
  Filter(table, [i \in 1..Len(table) |-> table[i][key] = g])

\* the named aggregations of line 203-208 for one group
Agg(table, key, g) ==
  LET rows == GroupRows(table, key, g)
  IN [Key |-> g,
      Sales |-> SeqSum(Column(rows, "Sales")),
      Profit |-> SeqSum(Column(rows, "Profit")),
      Quantity |-> SeqSum([i \in 1..Len(rows) |-> fillna(rows[i].Quantity, 0)[1]]),
      Orders |-> count(Column(rows, "OrderID"))]

\* line 212-213: Profit / Sales * 100, then fillna(0) (replaces NaN only)
WithMargin(a) ==
  LET q == Quotient(a.Profit, a.Sales)
  IN [Key |-> a.Key, Sales |-> a.Sales, Profit |-> a.Profit,
      Quantity |-> a.Quantity, Orders |-> a.Orders,
      ProfitMarginPct |-> IF q.k = "nan" THEN Zero ELSE q]

\* sort_values("Sales", ascending=False): any order of the groups that is
\* descending in Sales (the order of ties is not fixed)
SortedDesc(s) == \A i \in 1..(Len(s) - 1) : s[i].Sales >= s[i + 1].Sales

Breakdowns(table, key) ==
  LET G == {WithMargin(Agg(table, key, g)) : g \in GroupKeys(table, key)}
  IN {s \in [1..Cardinality(G) -> G] : Range(s) = G /\ SortedDesc(s)}

\* ------------------------------------------------------------------ sidebar
Universe(table, c) == Range(Column(table, c))
\* sorted(df[c].unique()) raises TypeError when a null sits among strings
Sortable(table, c) ==
  ~(Null \in Universe(table, c) /\ Universe(table, c) # {Null})

YearOptions(table) ==
  {[all |-> TRUE, y |-> 0]} \cup
  {[all |-> FALSE, y |-> table[i].Year[1]] : i \in 1..Len(table)}

Calendar == [y : {2010, 2011}, d : {1, 2}]
LeqDate(a, b) == LeqTs(to_datetime(a), to_datetime(b))

\* st.date_input with a two-date value: a (start, end) pair, or a 1-tuple
\* while only the start of the range has been picked
DateRanges ==
  {<<a>> : a \in Calendar} \cup
  {p \in Calendar \X Calendar : LeqDate(p[1], p[2])}

\* the value of the date-range control when the user leaves it alone
DefaultDateRange(table) ==
  LET dates == {table[i].OrderDate[1] : i \in 1..Len(table)}
  IN <<DateOf(MinTs(dates)), DateOf(MaxTs(dates))>>

\* every filter specification the sidebar can hand to apply_filters
FilterSpecs(table) ==
  [year : YearOptions(table),
   category : SUBSET Universe(table, "Category"),
   region : SUBSET Universe(table, "Region"),
   segment : SUBSET Universe(table, "Segment"),
   date_range : DateRanges \cup {DefaultDateRange(table)}]

\* the filter specification of an untouched sidebar
DefaultFilters(table) ==
  [year |-> [all |-> TRUE, y |-> 0],
   category |-> Universe(table, "Category"),
   region |-> Universe(table, "Region"),
   segment |-> Universe(table, "Segment"),
   date_range |-> DefaultDateRange(table)]

Pages == {"Overview", "Details", "Insights", "What-If"}

\* ------------------------------------------------------------------ actions
NoCache == [p \in {} |-> <<>>]

\* variant: the loader without the cache decorator
LoadUncached ==
  /\ pc = "load"
  /\ reads < MaxReads
  /\ reads' = reads + 1
  /\ LET r == load_and_prepare(file)
     IN IF r.status = "ok"
        THEN /\ cache' = [p \in {DATA_FILE} |-> r.table]
             /\ df' = Some(r.table)
             /\ pc' = "sidebar"
             /\ UNCHANGED error
        ELSE /\ error' = r.exc
             /\ pc' = "error"
             /\ UNCHANGED <<cache, df>>
  /\ UNCHANGED <<file, filters, filtered_df, kpis, page, groupby, grouped>>

\* line 109: load_and_prepare(DATA_FILE) behind st.cache_data
Load ==
  /\ pc = "load"
  /\ IF DATA_FILE \in DOMAIN cache
     THEN /\ df' = Some(cache[DATA_FILE])
          /\ pc' = "sidebar"
          /\ UNCHANGED <<cache, reads, error>>
     ELSE /\ reads < MaxReads
          /\ reads' = reads + 1
          /\ LET r == load_and_prepare(file)
             IN IF r.status = "ok"
                THEN /\ cache' = [p \in {DATA_FILE} |-> r.table]
                     /\ df' = Some(r.table)
                     /\ pc' = "sidebar"
                     /\ UNCHANGED error
                ELSE /\ error' = r.exc
                     /\ pc' = "error"
                     /\ UNCHANGED <<cache, df>>
  /\ UNCHANGED <<file, filters, filtered_df, kpis, page, groupby, grouped>>

\* line 114-145: the sidebar widgets build the filter specification
Sidebar ==
  /\ pc = "sidebar"
  /\ LET t == df[1]
     IN IF ~(Sortable(t, "Category") /\ Sortable(t, "Region")
             /\ Sortable(t, "Segment"))
        THEN error' = "TypeError" /\ pc' = "error" /\ UNCHANGED filters
        ELSE IF t = <<>>
        THEN error' = "ValueError" /\ pc' = "error" /\ UNCHANGED filters
        ELSE /\ \E f \in FilterSpecs(t) : filters' = Some(f)
             /\ pc' = "filter"
             /\ UNCHANGED error
  /\ UNCHANGED <<file, cache, reads, df, filtered_df, kpis, page, groupby,
                 grouped>>

\* variant: a one-date range is read as a range of that single day
ApplyFiltersLenient ==
  /\ pc = "filter"
  /\ LET d == filters[1].date_range
         f == [filters[1] EXCEPT !.date_range = <<d[1], d[Len(d)]>>]
         e == ApplyEffect(df[1], f)
     IN df' = Some(e.df) /\ filtered_df' = Some(e.out)
  /\ pc' = "kpis"
  /\ UNCHANGED <<file, cache, reads, filters, kpis, page, groupby, grouped,
                 error>>

\* line 147: filtered_df = apply_filters(df, filters)
ApplyFilters ==
  /\ pc = "filter"
  /\ IF Len(filters[1].date_range) # 2
     THEN /\ error' = "ValueError"
          /\ pc' = "error"
          /\ UNCHANGED <<df, filtered_df>>
     ELSE /\ LET e == ApplyEffect(df[1], filters[1])
             IN df' = Some(e.df) /\ filtered_df' = Some(e.out)
          /\ pc' = "kpis"
          /\ UNCHANGED error
  /\ UNCHANGED <<file, cache, reads, filters, kpis, page, groupby, grouped>>

\* line 152-165: the header and the KPI row
CalcKpis ==
  /\ pc = "kpis"
  /\ kpis' = Some(calculate_kpis(filtered_df[1]))
  /\ pc' = "page"
  /\ UNCHANGED <<file, cache, reads, df, filters, filtered_df, page, groupby,
                 grouped, error>>

\* line 195-230: the Details page with its group-by selector
PageDetails ==
  /\ pc = "page"
  /\ page' = "Details"
  /\ \E g \in GroupDims :
       /\ groupby' = g
       /\ \E b \in Breakdowns(filtered_df[1], g) : grouped' = Some(b)
  /\ pc' = "done"
  /\ UNCHANGED <<file, cache, reads, df, filters, filtered_df, kpis, error>>

\* line 170-190, 235-270: the pages that only chart the filtered table
PageChart ==
  /\ pc = "page"
  /\ page' \in Pages \ {"Details"}
  /\ pc' = "done"
  /\ UNCHANGED <<file, cache, reads, df, filters, filtered_df, kpis, groupby,
                 grouped, error>>

\* a user interaction: the framework runs the script again from the top
Rerun ==
  /\ pc \in {"done", "error"}
  /\ pc' = "load"
  /\ df' = Null /\ filters' = Null /\ filtered_df' = Null /\ kpis' = Null
  /\ grouped' = Null /\ page' = "" /\ groupby' = "" /\ error' = ""
  /\ UNCHANGED <<file, cache, reads>>

\* ------------------------------------------------------------ spreadsheets
NumCell(n) == [k |-> "num", v |-> n]
TextCell == [k |-> "text", v |-> 0]
EmptyCell == [k |-> "empty", v |-> 0]
Ts(y, d, t) == [y |-> y, d |-> d, t |-> t]
TsCell(ts) == [k |-> "ts", v |-> ts]
NoTsCell(kind) == [k |-> kind, v |-> Ts(0, 0, 0)]

Raw(inv, cust, country, type, date, qty, price) ==
  [InvoiceNo |-> inv, Description |-> Some("Mug"), CustomerID |-> cust,
   Country |-> country, Type |-> type, StockCode |-> Some("S1"),
   InvoiceDate |-> date, Quantity |-> qty, UnitPrice |-> price]

Sheets(rowset) ==
  UNION {[1..n -> rowset] : n \in 1..MaxRows}

StartOfRun ==
  /\ cache = NoCache /\ reads = 0 /\ pc = "load"
  /\ df = Null /\ filters = Null /\ filtered_df = Null /\ kpis = Null
  /\ grouped = Null /\ page = "" /\ groupby = "" /\ error = ""

\* -------------------------------------------------------------- SpecLoad
\* load_and_prepare on spreadsheets with any subset of the source columns
LoadRows ==
  {Raw(Some(1), NumCell(7), Some("UK"), Some("Retail"),
       TsCell(Ts(2010, 1, 1)), NumCell(2), NumCell(10)),
   Raw(Some(1), NumCell(7), Some("UK"), Some("B2B"),
       TsCell(Ts(2010, 1, 1)), NumCell(0 - 1), NumCell(10)),
   Raw(Some(2), EmptyCell, Some("FR"), Some("Wholesale"),
       TsCell(Ts(2011, 2, 0)), NumCell(3), NumCell(5)),
   Raw(Some(2), TextCell, Some("FR"), Null,
       TsCell(Ts(2011, 2, 0)), NumCell(3), NumCell(5)),
   Raw(Null, NumCell(8), Null, Some("Retail"),
       TsCell(Ts(2010, 2, 1)), EmptyCell, NumCell(5)),
   Raw(Some(3), NumCell(8), Some("UK"), Some("B2B"),
       NoTsCell("text"), NumCell(4), TextCell)}

InitLoad ==
  /\ StartOfRun
  /\ file \in [readable : {TRUE}, cols : SUBSET SourceCols,
               rows : Sheets(LoadRows)]

NextLoad == Load

SpecLoad == InitLoad /\ [][NextLoad]_vars

\* C6: load_and_prepare on a readable spreadsheet that lacks any subset of
\* the source columns completes without raising, and the canonical fields of
\* the missing columns are null in every row (Customer ID: the -1 sentinel).
C6_MissingColumnsDegrade ==
  (pc # "load" /\ file.readable) =>
    /\ pc # "error"
    /\ df # Null
    /\ \A i \in 1..Len(df[1]) :
         LET r == df[1][i]
             missing == SourceCols \ file.cols
         IN /\ "InvoiceNo" \in missing => r.OrderID = Null
            /\ "Description" \in missing => r.ProductName = Null
            /\ "CustomerID" \in missing => r.CustomerID \in {Null, <<0 - 1>>}
            /\ "Country" \in missing => r.Region = Null
            /\ "Type" \in missing => r.Segment = Null /\ r.Category = Null
            /\ "StockCode" \in missing => r.SubCategory = Null

\* C9: in every row of the loaded table Sales = Quantity x UnitPrice with
\* nulls taken as 0, and Profit = Sales x rate, the rate being 0.22 for
\* Retail, 0.14 for B2B and 0.18 for every other segment, null included
\* (Profit in hundredths).
C9_ProfitIsSalesTimesRate ==
  (pc = "sidebar") =>
    \A i \in 1..Len(df[1]) :
      LET r == df[1][i]
          q == IF r.Quantity = <<>> THEN 0 ELSE r.Quantity[1]
          p == IF r.UnitPrice = <<>> THEN 0 ELSE r.UnitPrice[1]
          rate == CASE r.Segment = <<"Retail">> -> 22
                    [] r.Segment = <<"B2B">> -> 14
                    [] OTHER -> 18
      IN r.Sales = q * p /\ r.Profit = r.Sales * rate

\* a loaded table holding a Retail row, a row of an unlisted segment and a
\* row without segment, all with non-zero sales
C9_Witness ==
  /\ pc = "sidebar"
  /\ \E i, j \in 1..Len(df[1]) :
       /\ df[1][i].Segment = Null /\ df[1][i].Sales # 0
       /\ df[1][j].Segment \in {<<"Retail">>, <<"Wholesale">>}
       /\ df[1][j].Sales # 0

\* -------------------------------------------------------------- SpecFilter
\* one render over spreadsheets that carry every source column
FilterRows ==
  {Raw(Some(1), NumCell(7), Some(c), Some(t), TsCell(ts), NumCell(2),
       NumCell(10)) :
     c \in {"UK", "FR"}, t \in {"Retail", "B2B"},
     ts \in {Ts(2010, 2, 0), Ts(2011, 1, 1)}}

InitFilter ==
  /\ StartOfRun
  /\ file \in [readable : {TRUE}, cols : {SourceCols},
               rows : Sheets(FilterRows)]

NextFilter == Load \/ Sidebar \/ ApplyFilters \/ CalcKpis

SpecFilter == InitFilter /\ [][NextFilter]_vars

\* C1: apply_filters returns exactly the rows of its input that meet all five
\* criteria (year "All" or equal to the row's Year; Category, Region and
\* Segment each in its selected set; start <= Order Date <= end with both
\* bounds included, start and end taken as the instants pd.to_datetime gives
\* them), in the input's order; an empty membership set leaves no row.
C1_ExactSubset ==
  (pc = "kpis") =>
    LET f == filters[1]
        Meets(r) ==
          /\ f.year.all \/ r.Year = <<f.year.y>>
          /\ r.Category \in f.category
          /\ r.Region \in f.region
          /\ r.Segment \in f.segment
          /\ LeqTs(to_datetime(f.date_range[1]), r.OrderDate[1])
          /\ LeqTs(r.OrderDate[1], to_datetime(f.date_range[2]))
    IN /\ filtered_df[1] = SelectSeq(df[1], Meets)
       /\ ({} \in {f.category, f.region, f.segment} => filtered_df[1] = <<>>)

\* a filter with a year chosen that keeps some rows and drops others
C1_Witness ==
  /\ pc = "kpis"
  /\ ~filters[1].year.all
  /\ Len(filtered_df[1]) >= 1
  /\ Len(filtered_df[1]) < Len(df[1])

\* C2: with the untouched sidebar (year "All", every category, region and
\* segment of the table, the date range from the calendar date of the
\* earliest order to that of the latest) the filtered table is the
\* normalized table itself.
C2_DefaultFilterIsIdentity ==
  (pc = "kpis" /\ filters[1] = DefaultFilters(df[1])) =>
    filtered_df[1] = df[1]

\* C3: calculate_kpis on a table without rows raises nothing and returns all
\* six metrics equal to 0.
C3_EmptyKpisAllZero ==
  (pc = "page" /\ filtered_df[1] = <<>>) =>
    /\ error = ""
    /\ kpis[1].total_sales = 0
    /\ kpis[1].total_profit = 0
    /\ kpis[1].total_orders = 0
    /\ kpis[1].total_customers = 0
    /\ kpis[1].avg_order_value.k = "finite" /\ kpis[1].avg_order_value.n = 0
    /\ kpis[1].profit_margin.k = "finite" /\ kpis[1].profit_margin.n = 0

\* ----------------------------------------------------------------- SpecAgg
\* the pages over filtered tables: a loaded table seen through a filter that
\* lets every row pass
AggRows ==
  {Raw(Some(inv), NumCell(cust), Some("UK"), Some(t), TsCell(Ts(2010, 2, 1)),
       NumCell(q), NumCell(10)) :
     inv \in {1, 2}, cust \in {7, 8}, t \in {"Retail", "B2B"},
     q \in {0 - 1, 1, 2}}

WideFilters(table) ==
  [DefaultFilters(table) EXCEPT
     !.date_range = <<[y |-> 2010, d |-> 1], [y |-> 2011, d |-> 2]>>]

InitAgg ==
  /\ file \in [readable : {TRUE}, cols : {SourceCols}, rows : Sheets(AggRows)]
  /\ df = Some(load_and_prepare(file).table)
  /\ cache = [p \in {DATA_FILE} |-> df[1]]
  /\ filters = Some(WideFilters(df[1]))
  /\ filtered_df = Some(apply_filters(df[1], filters[1]))
  /\ kpis = Some(calculate_kpis(filtered_df[1]))
  /\ reads = 1 /\ pc = "page"
  /\ grouped = Null /\ page = "" /\ groupby = "" /\ error = ""

NextAgg == PageDetails \/ PageChart

SpecAgg == InitAgg /\ [][NextAgg]_vars

\* the rows of the filtered table that fall in the group of entry e
RowsOfGroup(e) ==
  SelectSeq(filtered_df[1], LAMBDA r : r[groupby] = e.Key)

\* C4: in the grouped breakdown the Orders column of every group is the
\* number of distinct Order ID values among the group's rows.
C4_OrdersAreDistinct ==
  (pc = "done" /\ page = "Details") =>
    \A i \in 1..Len(grouped[1]) :
      grouped[1][i].Orders =
        Cardinality({r.OrderID : r \in Range(RowsOfGroup(grouped[1][i]))}
                    \ {Null})

\* C5: in the grouped breakdown every group whose summed Sales is 0 has
\* Profit Margin % = 0, and no group has an infinite or undefined one.
C5_ZeroSalesZeroMargin ==
  (pc = "done" /\ page = "Details") =>
    \A i \in 1..Len(grouped[1]) :
      LET e == grouped[1][i]
      IN /\ e.ProfitMarginPct.k = "finite"
         /\ e.Sales = 0 => e.ProfitMarginPct.n = 0

\* -------------------------------------------------------------------- Spec
\* renders one after another, the spreadsheet changing on disk in between
SheetA ==
  <<Raw(Some(1), NumCell(7), Some("UK"), Some("Retail"),
        TsCell(Ts(2010, 2, 0)), NumCell(2), NumCell(10)),
    Raw(Some(2), NumCell(8), Some("FR"), Some("B2B"),
        TsCell(Ts(2011, 1, 1)), NumCell(1), NumCell(50))>>

SheetB ==
  <<Raw(Some(3), EmptyCell, Some("UK"), Some("B2B"),
        TsCell(Ts(2011, 1, 0)), NumCell(0 - 1), NumCell(10))>>

\* no row with a date: the loaded table is empty
SheetC ==
  <<Raw(Some(4), NumCell(7), Some("UK"), Some("Retail"),
        NoTsCell("empty"), NumCell(1), NumCell(10))>>

\* a row without Country next to one with: the region options do not sort
SheetD ==
  <<Raw(Some(5), NumCell(7), Some("UK"), Some("Retail"),
        TsCell(Ts(2010, 1, 0)), NumCell(1), NumCell(10)),
    Raw(Some(5), NumCell(7), Null, Some("Retail"),
        TsCell(Ts(2010, 1, 0)), NumCell(1), NumCell(10))>>

Disk ==
  [readable : {TRUE}, cols : {SourceCols},
   rows : {SheetA, SheetB, SheetC, SheetD}] \cup
  [readable : {FALSE}, cols : {SourceCols}, rows : {SheetA}]

\* the spreadsheet is replaced on disk between two renders
FileChange ==
  /\ pc \in {"done", "error"}
  /\ file' \in Disk \ {file}
  /\ UNCHANGED <<cache, reads, pc, df, filters, filtered_df, kpis, page,
                 groupby, grouped, error>>

\* the framework's "Clear cache" command, between two renders
ClearCache ==
  /\ pc \in {"done", "error"}
  /\ cache # NoCache
  /\ cache' = NoCache
  /\ UNCHANGED <<file, reads, pc, df, filters, filtered_df, kpis, page,
                 groupby, grouped, error>>

Init ==
  /\ StartOfRun
  /\ file \in Disk

Next ==
  \/ Load \/ Sidebar \/ ApplyFilters \/ CalcKpis \/ PageDetails \/ PageChart
  \/ Rerun \/ FileChange \/ ClearCache

Spec == Init /\ [][Next]_vars

\* C7: across renders of the same path the file is read only when the cache
\* holds no table for the path, and a load that returns stores its table;
\* from then on every render gets that table without reading the file, also
\* after the file has changed, until the cache is cleared.
C7_ReadThroughCache ==
  [][/\ (pc = "load" /\ DATA_FILE \in DOMAIN cache) =>
          /\ reads' = reads
          /\ cache' = cache
          /\ df' = <<cache[DATA_FILE]>>
     /\ reads' # reads => DATA_FILE \notin DOMAIN cache
     /\ (reads' # reads /\ pc' = "sidebar") =>
          DATA_FILE \in DOMAIN cache' /\ df' = <<cache'[DATA_FILE]>>
     /\ (DATA_FILE \in DOMAIN cache /\ DATA_FILE \in DOMAIN cache') =>
          cache'[DATA_FILE] = cache[DATA_FILE]]_vars

\* a render served from the cache with a table the file no longer holds
C7_Witness ==
  /\ pc = "sidebar"
  /\ reads = 1
  /\ file.readable
  /\ df = <<cache[DATA_FILE]>>
  /\ cache[DATA_FILE] # load_and_prepare(file).table

\* C8: no step of a render changes the cached table, and once a render has
\* its base table no later step of that render changes it: apply_filters
\* leaves its argument as it was, and the base table stays equal to the
\* cached one through filters, KPIs and pages.
C8_BaseTableUntouched ==
  [][/\ pc \in {"sidebar", "filter", "kpis", "page"} =>
          cache' = cache /\ df' = df
     /\ pc' \in {"filter", "kpis", "page"} => df' = <<cache'[DATA_FILE]>>]_vars

\* a finished render whose filter dropped rows of the base table
C8_Witness ==
  /\ pc = "done"
  /\ page = "Details"
  /\ Len(filtered_df[1]) < Len(df[1])
  /\ df = <<cache[DATA_FILE]>>

\* C10: apply_filters completes only for a two-date range.  With a one-date
\* range the render stops with an error at the filter step and produces no
\* filtered table, KPIs or page; the cache is left as it was, and a render
\* whose range has two dates goes on to the KPIs.
C10_OneDateRangeFails ==
  [][/\ (pc = "filter" /\ Len(filters[1].date_range) # 2) =>
          /\ pc' = "error" /\ error' # ""
          /\ filtered_df' = Null /\ kpis' = Null /\ grouped' = Null
          /\ page' = ""
          /\ cache' = cache
     /\ (pc = "filter" /\ Len(filters[1].date_range) = 2) =>
          pc' = "kpis" /\ filtered_df' # Null /\ error' = ""
     /\ (pc = "error" /\ pc' = "error") =>
          filtered_df' = Null /\ kpis' = Null /\ grouped' = Null /\ page' = ""
     /\ pc' \in {"kpis", "page", "done"} => Len(filters'[1].date_range) = 2]_vars

\* a render that failed on a one-date range, the cache holding the table
C10_Witness ==
  /\ pc = "error"
  /\ filters # Null
  /\ Len(filters[1].date_range) = 1
  /\ filtered_df = Null
  /\ DATA_FILE \in DOMAIN cache

====
